---- MODULE Spec2Model ----
(***************************************************************************)
(* A model of runtime/php_assert.cpp: php_warning, php_assert__ and        *)
(* print_demangled_adresses.  A context is a flow of control executing     *)
(* the program: a thread of the original process, or the process a         *)
(* level-3 render forks.  php_warning is modelled statement by statement,  *)
(* with every fprintf a separate write to the unbuffered error stream.     *)
(***************************************************************************)
EXTENDS Integers, Sequences, FiniteSets

\* ---------------------------------------------------------------- bounds
\* calls the program makes in a run of Spec
MaxCalls == 2
\* calls the two threads of SpecConc make between them
MaxConcCalls == 3
\* calls beyond the cap inside one rate window in a run of SpecRate
MaxExtra == 3
\* frames of the deepest physical stack
MaxFrames == 3
\* frames of the deepest cooperative (resumable) stack
MaxCoop == 2
\* the clock runs to MaxWindows window lengths
MaxWindows == 2
\* deepest critical-section nesting of the caller of php_warning
MaxDepth == 1

\* ------------------------------------------------------ program constants
warnings_time_period == 300
warnings_time_limit == 1000
\* the largest int: cur_time and the statics are ints
INT_MAX == 2147483647
\* void *buffer[64]; void *buffer2[64]
BufferSize == 64

\* The address space: 1 lies below the run_scheduler section, 2 is its start
\* symbol, 3 its stop symbol, 4 lies above it.
start_run_scheduler_section == 2
stop_run_scheduler_section == 3
Addr == 1 .. (stop_run_scheduler_section + 1)

\* Contexts and processes: the program's threads, and room for the chain of
\* children that the three renders of one report can fork.
Ctx == 1 .. 4
Proc == 1 .. 4

VARIABLES
    php_warning_level,     \* int php_warning_level
    php_disable_warnings,  \* int php_disable_warnings
    die_on_fail,           \* the fatal-on-warning toggle (php-engine-vars.h)
    stacks,                \* which physical stacks the call sites of this run have
    symbols_ok,            \* whether backtrace_symbols can read the symbols
    debugger,              \* what a level-3 render can meet on this machine
    warnings_printed,      \* static int warnings_printed
    warnings_count_time,   \* static int warnings_count_time
    skipped,               \* static int skipped
    now,                   \* the last value time(nullptr) returned
    in_critical_section,   \* dl::in_critical_section, one copy per process
    procs,                 \* per process: "none", "running" or "exited"
    proc,                  \* per context: its process (0: no such context)
    pc,                    \* per context: the statement it is at
    fn,                    \* per context: the function its caller called
    cur_time,              \* per context: int cur_time
    reg,                   \* per context: the value ++ loaded
    buffer,                \* per context: void *buffer[64], as filled
    nptrs,                 \* per context: int nptrs
    scheduler_id,          \* per context: int scheduler_id
    buffer2,               \* per context: void *buffer2[64], as filled
    wq,                    \* per context: the fprintf calls of the current statement
    res,                   \* per context: how its latest php_warning went
    depth0,                \* per context: in_critical_section at its call's entry
    waits,                 \* per context: the context waitpid waits for (0: none)
    ret,                   \* per context: the statement after the current render
    log,                   \* writes to stderr and calls out, in order
    calls,                 \* calls made (bounds the run)
    win_calls,             \* enabled calls counted in the current rate window
    win_rendered           \* reports rendered in the current rate window

vars == << php_warning_level, php_disable_warnings, die_on_fail, stacks, symbols_ok,
           debugger,
           warnings_printed, warnings_count_time, skipped, now,
           in_critical_section, procs, proc, pc, fn, cur_time, reg, buffer,
           nptrs, scheduler_id, buffer2, wq, res, depth0, waits, ret, log,
           calls, win_calls, win_rendered >>

config ==
    << php_warning_level, php_disable_warnings, die_on_fail, stacks, symbols_ok,
       debugger >>
statics == << warnings_printed, warnings_count_time, skipped >>
ghosts == << win_calls, win_rendered >>
frames == << buffer, nptrs, scheduler_id, buffer2 >>

\* ---------------------------------------------------------------- helpers
SeqsUpTo(S, n) == UNION { [1 .. k -> S] : k \in 0 .. n }

Min(a, b) == IF a <= b THEN a ELSE b

Max(a, b) == IF a >= b THEN a ELSE b

Take(s, n) == SubSeq(s, 1, Min(n, Len(s)))

Drop(s, n) == SubSeq(s, n + 1, Len(s))

\* One entry of the log: context c wrote a line of kind k to stderr, or made
\* the call k; v is the line's number or address (0 when it has none).
E(c, k, v) == [ctx |-> c, kind |-> k, val |-> v]

\* The kinds that are bytes on stderr; the other kinds are calls out.
StreamKinds ==
    { "notice", "limit", "header", "message", "banner", "addr", "sym", "raw",
      "fd", "gdb", "gdberr", "closing", "final_warning", "final_assert" }

IsStream(e) == e.kind \in StreamKinds

\* What stderr holds.
Stderr == SelectSeq(log, IsStream)

\* The physical stacks a call site can have, innermost frame first.
AllStacks == SeqsUpTo(Addr, MaxFrames)

\* Two of them: one frame outside the scheduler, and the scheduler's frame
\* innermost of three.
SomeStacks == { << 1 >>, << 2, 1, 1 >> }

CallStacks ==
    CASE stacks = "all" -> AllStacks
      [] stacks = "some" -> SomeStacks
      [] stacks = "none" -> { << >> }

\* The saved stacks of a cooperative task: addresses above the address space
\* of the physical frames, so that a line tells which stack it came from.
CoopStacks ==
    { [i \in 1 .. n |-> stop_run_scheduler_section + 1 + i] : n \in 0 .. MaxCoop }

\* Addresses whose symbol backtrace_symbols can name.
Resolvable == { a \in Addr : a % 2 = 1 }

\* ------------------------------------------------- php_assert.cpp:33-35
\* (a half-open section: the stop address left out)
is_address_before_stop(address) ==
    /\ start_run_scheduler_section <= address
    /\ address < stop_run_scheduler_section

\* (the upper bound of the section forgotten)
is_address_above_start(address) == start_run_scheduler_section <= address

is_address_inside_run_scheduler(address) ==
    start_run_scheduler_section <= address /\ address <= stop_run_scheduler_section

\* std::find_if(buffer, buffer + n, is_address_inside_run_scheduler) - buffer:
\* the 0-based index of the first frame inside the section, n if there is none.
RECURSIVE find_from(_, _, _)
find_from(buf, n, i) ==
    IF i >= n THEN n
    ELSE IF is_address_inside_run_scheduler(buf[i + 1]) THEN i
    ELSE find_from(buf, n, i + 1)

\* (the outermost matching frame instead of the innermost)
find_if_outermost(buf, n) ==
    IF \E i \in 1 .. n : is_address_inside_run_scheduler(buf[i])
    THEN (CHOOSE i \in 1 .. n :
              /\ is_address_inside_run_scheduler(buf[i])
              /\ \A j \in (i + 1) .. n :
                     ~is_address_inside_run_scheduler(buf[j])) - 1
    ELSE n

find_if(buf, n) == find_from(buf, n, 0)

\* fast_backtrace(buffer, 64): the stack, cut at the buffer's size.
fast_backtrace(stack) == Take(stack, BufferSize)

\* get_resumable_stack(buffer2, 64)
get_resumable_stack(coop) == Take(coop, BufferSize)

\* nptrs as php_warning leaves it after lines 118-124.
kept_frames(level, n) == IF level = 1 THEN Max(n - 2, 0) ELSE n

\* ------------------------------------------------- php_assert.cpp:37-48
\* The lines print_demangled_adresses writes for buf[0 .. n) at levels 1 and 2.
\* At level 2 get_demangled_backtrace hands one line per frame to the callback
\* (the symbol's name, or the raw string of a frame it cannot name) and
\* returns true; it returns false, having printed nothing, when the symbols
\* could not be read at all, and backtrace_symbols_fd then prints every frame.
get_demangled_backtrace(c, buf, n) ==
    [i \in 1 .. n |-> IF buf[i] \in Resolvable THEN E(c, "sym", buf[i])
                      ELSE E(c, "raw", buf[i])]

backtrace_symbols_fd(c, buf, n) == [i \in 1 .. n |-> E(c, "fd", buf[i])]

\* (the loop of line 39 stopping one frame early)
address_lines_short(c, buf, n) ==
    [i \in 1 .. Max(n - 1, 0) |-> E(c, "addr", buf[i])]

address_lines(c, buf, n) == [i \in 1 .. n |-> E(c, "addr", buf[i])]

\* (lines 46-48 missing: no fallback to backtrace_symbols_fd)
print_demangled_no_fallback(c, level, buf, n, was_printed) ==
    IF level = 1 THEN address_lines(c, buf, n)
    ELSE IF level = 2 THEN get_demangled_backtrace(c, buf, n)
    ELSE << >>

print_demangled_adresses(c, level, buf, n, was_printed) ==
    IF level = 1 THEN address_lines(c, buf, n)
    ELSE IF level = 2
         THEN IF was_printed THEN get_demangled_backtrace(c, buf, n)
              ELSE backtrace_symbols_fd(c, buf, n)
    ELSE << >>

\* ------------------------------------------------------------ scheduling
Running(c) == proc[c] # 0 /\ procs[proc[c]] = "running"

\* c is at statement l with the fprintf calls of its last statement done.
At(c, l) == Running(c) /\ pc[c] = l /\ wq[c] = << >>

\* No context other than c is inside a call.
Quiet(c) == \A d \in Ctx \ {c} : ~Running(d) \/ pc[d] = "idle"

\* (php_assert__ returning after its php_warning call)
after_warning_returns(f) == "idle"

\* Where control goes when php_warning returns.
after_warning(f) == IF f = "assert" THEN "assert_raise" ELSE "idle"

\* ------------------------------------------------- php_assert.cpp:74-86
\* a + b as the int addition of the program computes it when the sum fits.
int_fits(a, b) == a <= INT_MAX - b

\* a + b (b >= 0) in a 32-bit two's complement register.
int_add(a, b) ==
    IF int_fits(a, b) THEN a + b
    ELSE (0 - INT_MAX - 1) + ((a - INT_MAX - 1) + b)

\* The first window start whose end lies beyond the largest int.
LastWindow == INT_MAX - warnings_time_period + 1

\* The readings that can follow the reading t: the clock does not run
\* backwards, and a reading lands on the last one, one second before a
\* window's length later, or a window's length later, as far as an int goes.
Later(t) ==
    { t } \cup { t + d : d \in { e \in { warnings_time_period - 1,
                                         warnings_time_period } :
                                  int_fits(t, e) } }

\* The values time(nullptr) can return next, in the stretches of the clock
\* that are modelled: the first MaxWindows windows after 0, and the seconds
\* from LastWindow to INT_MAX.
TimeReadings ==
    { t \in Later(now) :
        t <= MaxWindows * warnings_time_period \/ t >= LastWindow }

\* (line 75 testing the level only)
warnings_off_by_level(level, disabled) == level = 0

\* Line 75: whether php_warning returns at once.
warnings_off(level, disabled) == level = 0 \/ disabled # 0

\* The caller calls php_warning (f = "warning") or php_assert__ (f = "assert",
\* whose first statement calls php_warning).  Lines 75-77 return at level 0 or
\* with warnings disabled; line 86 reads the clock, one of readings.  The log
\* restarts when no other context is inside a call.
Call(c, f, readings) ==
    /\ At(c, "idle")
    /\ proc[c] = 1
    /\ fn' = [fn EXCEPT ![c] = f]
    /\ depth0' = [depth0 EXCEPT ![c] = in_critical_section[proc[c]]]
    /\ log' = IF Quiet(c) THEN << >> ELSE log
    /\ IF warnings_off(php_warning_level, php_disable_warnings)
       THEN /\ res' = [res EXCEPT ![c] = "disabled"]
            /\ pc' = [pc EXCEPT ![c] = after_warning(f)]
            /\ UNCHANGED << now, cur_time >>
       ELSE /\ \E t \in readings :
                  /\ now' = t
                  /\ cur_time' = [cur_time EXCEPT ![c] = t]
            /\ res' = [res EXCEPT ![c] = "gate"]
            /\ pc' = [pc EXCEPT ![c] = "rollover"]
    /\ UNCHANGED << config, statics, in_critical_section, procs, proc, reg,
                    frames, wq, waits, ret, ghosts >>

\* ------------------------------------------------- php_assert.cpp:88-95
\* Line 88: the outcomes of the test for a call at time t in the window that
\* began at start.  The int sum start + warnings_time_period overflows for a
\* start from LastWindow on, which is undefined: the test can then go
\* either way.
rollover_due(t, start) ==
    IF int_fits(start, warnings_time_period)
    THEN { t >= start + warnings_time_period }
    ELSE BOOLEAN

\* Lines 89-91: the store to warnings_printed, the store to
\* warnings_count_time and the load of skipped are accesses to three plain
\* static ints: a build makes them in any order (the unoptimised one as
\* written, the optimised one loads skipped first and stores
\* warnings_printed last).
Resets == { "printed", "time", "skipped" }

\* The statement a context is at with the accesses S of lines 89-91 to make.
reset_label(S) ==
    CASE S = { "printed", "time", "skipped" } -> "reset_pts"
      [] S = { "printed", "time" } -> "reset_pt"
      [] S = { "printed", "skipped" } -> "reset_ps"
      [] S = { "time", "skipped" } -> "reset_ts"
      [] S = { "printed" } -> "reset_p"
      [] S = { "time" } -> "reset_t"
      [] S = { "skipped" } -> "reset_s"

\* The accesses of lines 89-91 still to make at statement l.
reset_left(l) == UNION { S \in (SUBSET Resets) \ { { } } : reset_label(S) = l }

\* Where control is after one of the accesses, with S left: line 91 tests the
\* value sk of skipped when all three are made.
after_reset(S, sk) ==
    IF S # { } THEN reset_label(S)
    ELSE IF sk > 0 THEN "notice" ELSE "load"

\* Line 88: the test.  (win_calls and win_rendered restart with the call
\* that ends the window.)
Rollover(c) ==
    /\ At(c, "rollover")
    /\ \E due \in rollover_due(cur_time[c], warnings_count_time) :
          IF due
          THEN /\ pc' = [pc EXCEPT ![c] = reset_label(Resets)]
               /\ win_calls' = 1
               /\ win_rendered' = 0
          ELSE /\ pc' = [pc EXCEPT ![c] = "load"]
               /\ win_calls' = win_calls + 1
               /\ UNCHANGED win_rendered
    /\ UNCHANGED << config, statics, now, in_critical_section, procs, proc, fn,
                    cur_time, reg, frames, wq, res, depth0, waits, ret, log,
                    calls >>

\* Line 89: the store to warnings_printed.
ResetPrinted(c) ==
    /\ Running(c)
    /\ wq[c] = << >>
    /\ "printed" \in reset_left(pc[c])
    /\ warnings_printed' = 0
    /\ pc' = [pc EXCEPT ![c] =
                 after_reset(reset_left(pc[c]) \ { "printed" }, reg[c])]
    /\ UNCHANGED << config, warnings_count_time, skipped, now,
                    in_critical_section, procs, proc, fn, cur_time, reg, frames,
                    wq, res, depth0, waits, ret, log, calls, ghosts >>

\* Line 90: the store to warnings_count_time.
ResetTime(c) ==
    /\ Running(c)
    /\ wq[c] = << >>
    /\ "time" \in reset_left(pc[c])
    /\ warnings_count_time' = cur_time[c]
    /\ pc' = [pc EXCEPT ![c] =
                 after_reset(reset_left(pc[c]) \ { "time" }, reg[c])]
    /\ UNCHANGED << config, warnings_printed, skipped, now,
                    in_critical_section, procs, proc, fn, cur_time, reg, frames,
                    wq, res, depth0, waits, ret, log, calls, ghosts >>

\* Line 91: the load of skipped, which the test uses.
TestSkipped(c) ==
    /\ Running(c)
    /\ wq[c] = << >>
    /\ "skipped" \in reset_left(pc[c])
    /\ reg' = [reg EXCEPT ![c] = skipped]
    /\ pc' = [pc EXCEPT ![c] =
                 after_reset(reset_left(pc[c]) \ { "skipped" }, skipped)]
    /\ UNCHANGED << config, statics, now, in_critical_section, procs, proc, fn,
                    cur_time, frames, wq, res, depth0, waits, ret, log, calls,
                    ghosts >>

\* Line 92: the arguments of the fprintf (skipped, as line 91 read it or read
\* again, and a second reading of the clock), then the write of the notice.
Notice(c) ==
    /\ At(c, "notice")
    /\ \E v \in { reg[c], skipped }, t \in TimeReadings :
          /\ now' = t
          /\ wq' = [wq EXCEPT ![c] = << E(c, "notice", v) >>]
    /\ pc' = [pc EXCEPT ![c] = "reset_skipped"]
    /\ UNCHANGED << config, statics, in_critical_section, procs, proc, fn,
                    cur_time, reg, frames, res, depth0, waits, ret, log, calls,
                    ghosts >>

\* (line 93 missing: skipped is not reset)
ResetSkipped_missing(c) ==
    /\ At(c, "reset_skipped")
    /\ pc' = [pc EXCEPT ![c] = "load"]
    /\ UNCHANGED << config, statics, now, in_critical_section, procs, proc, fn,
                    cur_time, reg, frames, wq, res, depth0, waits, ret, log,
                    calls, ghosts >>

\* Line 93: the store to skipped, after the notice is written.
ResetSkipped(c) ==
    /\ At(c, "reset_skipped")
    /\ skipped' = 0
    /\ pc' = [pc EXCEPT ![c] = "load"]
    /\ UNCHANGED << config, warnings_printed, warnings_count_time, now,
                    in_critical_section, procs, proc, fn, cur_time, reg, frames,
                    wq, res, depth0, waits, ret, log, calls, ghosts >>

\* ------------------------------------------------- php_assert.cpp:97-103
\* ++warnings_printed is a load and a store of a plain int, as is ++skipped.
LoadPrinted(c) ==
    /\ At(c, "load")
    /\ reg' = [reg EXCEPT ![c] = warnings_printed]
    /\ pc' = [pc EXCEPT ![c] = "store"]
    /\ UNCHANGED << config, statics, now, in_critical_section, procs, proc, fn,
                    cur_time, frames, wq, res, depth0, waits, ret, log, calls,
                    ghosts >>

\* Line 97: the store of ++warnings_printed; the register keeps the value.
StorePrinted(c) ==
    /\ At(c, "store")
    /\ warnings_printed' = reg[c] + 1
    /\ reg' = [reg EXCEPT ![c] = reg[c] + 1]
    /\ pc' = [pc EXCEPT ![c] = "test_limit"]
    /\ UNCHANGED << config, warnings_count_time, skipped, now,
                    in_critical_section, procs, proc, fn, cur_time, frames, wq,
                    res, depth0, waits, ret, log, calls, ghosts >>

\* What a test of the counter after the store can see: the value stored, kept
\* in a register (an optimised build), or the variable read again (an
\* unoptimised build), which another thread may have written meanwhile.
counter_seen(c) == { reg[c], warnings_printed }

\* Whether the counter's new value v stops the warning (line 97).
limit_reached(v) == v >= warnings_time_limit

\* Line 97: the test.
TestLimit(c) ==
    /\ At(c, "test_limit")
    /\ \E v \in counter_seen(c) :
          pc' = [pc EXCEPT ![c] = IF limit_reached(v) THEN "test_first"
                                  ELSE "enter"]
    /\ UNCHANGED << config, statics, now, in_critical_section, procs, proc, fn,
                    cur_time, reg, frames, wq, res, depth0, waits, ret, log,
                    calls, ghosts >>

\* (line 98 testing >= : the line is printed for every stopped warning)
every_over_limit(v) == v >= warnings_time_limit

\* Line 98: whether the stopped warning is the one that reached the limit.
first_over_limit(v) == v = warnings_time_limit

\* Line 98: the test.
TestFirst(c) ==
    /\ At(c, "test_first")
    /\ \E v \in counter_seen(c) :
          pc' = [pc EXCEPT ![c] = IF first_over_limit(v) THEN "limit_line"
                                  ELSE "skip"]
    /\ UNCHANGED << config, statics, now, in_critical_section, procs, proc, fn,
                    cur_time, reg, frames, wq, res, depth0, waits, ret, log,
                    calls, ghosts >>

\* Lines 99-100: the line "Warnings limit reached", with warnings_count_time
\* as it is read now; the int sum wraps round.
LimitLine(c) ==
    /\ At(c, "limit_line")
    /\ wq' = [wq EXCEPT ![c] =
                 << E(c, "limit", int_add(warnings_count_time,
                                          warnings_time_period)) >>]
    /\ pc' = [pc EXCEPT ![c] = "skip"]
    /\ UNCHANGED << config, statics, now, in_critical_section, procs, proc, fn,
                    cur_time, reg, frames, res, depth0, waits, ret, log, calls,
                    ghosts >>

\* Line 101: the load of ++skipped.
LoadSkipped(c) ==
    /\ At(c, "skip")
    /\ reg' = [reg EXCEPT ![c] = skipped]
    /\ pc' = [pc EXCEPT ![c] = "skip_store"]
    /\ UNCHANGED << config, statics, now, in_critical_section, procs, proc, fn,
                    cur_time, frames, wq, res, depth0, waits, ret, log, calls,
                    ghosts >>

\* Lines 101-102: the store of ++skipped, and the return.
StoreSkipped(c) ==
    /\ At(c, "skip_store")
    /\ skipped' = reg[c] + 1
    /\ res' = [res EXCEPT ![c] = "limited"]
    /\ pc' = [pc EXCEPT ![c] = "return"]
    /\ UNCHANGED << config, warnings_printed, warnings_count_time, now,
                    in_critical_section, procs, proc, fn, cur_time, reg, frames,
                    wq, depth0, waits, ret, log, calls, ghosts >>

\* One fprintf reaches stderr: stderr is unbuffered, each call is one write.
Write(c) ==
    /\ Running(c)
    /\ wq[c] # << >>
    /\ log' = Append(log, Head(wq[c]))
    /\ wq' = [wq EXCEPT ![c] = Tail(wq[c])]
    /\ UNCHANGED << config, statics, now, in_critical_section, procs, proc, pc,
                    fn, cur_time, reg, frames, res, depth0, waits, ret, calls,
                    ghosts >>

\* ------------------------------------------------- php_assert.cpp:105-116
\* dl::enter_critical_section and dl::leave_critical_section count the nesting
\* in dl::in_critical_section.
enter_critical_section(d) == d + 1

leave_critical_section(d) == d - 1

\* enter_critical_section(), then the header, the message and the banner.
Enter(c) ==
    /\ At(c, "enter")
    /\ in_critical_section' =
           [in_critical_section EXCEPT ![proc[c]] = enter_critical_section(@)]
    /\ wq' = [wq EXCEPT ![c] = << E(c, "header", cur_time[c]),
                                  E(c, "message", 0), E(c, "banner", 0) >>]
    /\ res' = [res EXCEPT ![c] = "rendered"]
    /\ win_rendered' = win_rendered + 1
    /\ pc' = [pc EXCEPT ![c] = "capture"]
    /\ UNCHANGED << config, statics, now, procs, proc, fn, cur_time, reg, frames,
                    depth0, waits, ret, log, calls, win_calls >>

\* ------------------------------------------------- php_assert.cpp:117-127
\* fast_backtrace fills the buffer, level 1 drops two from nptrs, find_if
\* looks for the scheduler's frame among the first nptrs.
Capture(c) ==
    /\ At(c, "capture")
    /\ \E stack \in CallStacks :
          LET buf == fast_backtrace(stack)
              n == kept_frames(php_warning_level, Len(buf))
              id == find_if(buf, n)
          IN  /\ buffer' = [buffer EXCEPT ![c] = buf]
              /\ nptrs' = [nptrs EXCEPT ![c] = n]
              /\ scheduler_id' = [scheduler_id EXCEPT ![c] = id]
              /\ pc' = [pc EXCEPT ![c] = IF id = n THEN "print_all"
                                         ELSE "print_pre"]
    /\ UNCHANGED << config, statics, now, in_critical_section, procs, proc, fn,
                    cur_time, reg, buffer2, wq, res, depth0, waits, ret, log,
                    calls, ghosts >>

\* ------------------------------------------------- php_assert.cpp:128-134
\* The frames each print_demangled_adresses call of php_warning is given.
segment(c, l) ==
    CASE l = "print_all" -> SubSeq(buffer[c], 1, nptrs[c])
      [] l = "print_pre" -> SubSeq(buffer[c], 1, scheduler_id[c])
      [] l = "print_coop" -> buffer2[c]
      [] l = "print_post" -> SubSeq(buffer[c], scheduler_id[c] + 1, nptrs[c])

\* The statement that follows each of them.
after_print(l) ==
    CASE l = "print_all" -> "close"
      [] l = "print_pre" -> "query"
      [] l = "print_coop" -> "print_post"
      [] l = "print_post" -> "close"

PrintLabels == { "print_all", "print_pre", "print_coop", "print_post" }

\* One call of print_demangled_adresses: at levels 1 and 2 it writes its lines,
\* at level 3 it goes on to readlink and fork.
PrintSegment(c) ==
    /\ Running(c)
    /\ pc[c] \in PrintLabels
    /\ wq[c] = << >>
    /\ ret' = [ret EXCEPT ![c] = after_print(pc[c])]
    /\ IF php_warning_level = 3
       THEN /\ pc' = [pc EXCEPT ![c] = "readlink"]
            /\ UNCHANGED wq
       ELSE /\ wq' = [wq EXCEPT ![c] =
                        print_demangled_adresses(c, php_warning_level,
                            segment(c, pc[c]), Len(segment(c, pc[c])),
                            symbols_ok)]
            /\ pc' = [pc EXCEPT ![c] = after_print(pc[c])]
    /\ UNCHANGED << config, statics, now, in_critical_section, procs, proc, fn,
                    cur_time, reg, frames, res, depth0, waits, log, calls,
                    ghosts >>

\* Line 132: get_resumable_stack fills buffer2.
Query(c) ==
    /\ At(c, "query")
    /\ \E coop \in CoopStacks :
          /\ buffer2' = [buffer2 EXCEPT ![c] = get_resumable_stack(coop)]
          /\ log' = Append(log, E(c, "get_resumable_stack", Len(coop)))
    /\ pc' = [pc EXCEPT ![c] = "print_coop"]
    /\ UNCHANGED << config, statics, now, in_critical_section, procs, proc, fn,
                    cur_time, reg, buffer, nptrs, scheduler_id, wq, res, depth0,
                    waits, ret, calls, ghosts >>

\* Line 137: the closing banner.
Close(c) ==
    /\ At(c, "close")
    /\ wq' = [wq EXCEPT ![c] = << E(c, "closing", 0) >>]
    /\ pc' = [pc EXCEPT ![c] = "leave"]
    /\ UNCHANGED << config, statics, now, in_critical_section, procs, proc, fn,
                    cur_time, reg, frames, res, depth0, waits, ret, log, calls,
                    ghosts >>

\* ------------------------------------------------- php_assert.cpp:140-148
\* (line 140 missing)
Leave_missing(c) ==
    /\ At(c, "leave")
    /\ pc' = [pc EXCEPT ![c] = "hook"]
    /\ UNCHANGED << config, statics, now, in_critical_section, procs, proc, fn,
                    cur_time, reg, frames, wq, res, depth0, waits, ret, log,
                    calls, ghosts >>

Leave(c) ==
    /\ At(c, "leave")
    /\ in_critical_section' =
           [in_critical_section EXCEPT ![proc[c]] = leave_critical_section(@)]
    /\ pc' = [pc EXCEPT ![c] = "hook"]
    /\ UNCHANGED << config, statics, now, procs, proc, fn, cur_time, reg, frames,
                    wq, res, depth0, waits, ret, log, calls, ghosts >>

\* Line 141: the test of dl::in_critical_section, which the threads of a
\* process share.
Hook(c) ==
    /\ At(c, "hook")
    /\ pc' = [pc EXCEPT ![c] = IF in_critical_section[proc[c]] = 0
                                THEN "invoke" ELSE "die"]
    /\ UNCHANGED << config, statics, now, in_critical_section, procs, proc, fn,
                    cur_time, reg, frames, wq, res, depth0, waits, ret, log,
                    calls, ghosts >>

\* Line 142: the call of the hook.
invoke_callback(c) ==
    /\ At(c, "invoke")
    /\ log' = Append(log, E(c, "invoke_callback", 0))
    /\ pc' = [pc EXCEPT ![c] = "die"]
    /\ UNCHANGED << config, statics, now, in_critical_section, procs, proc, fn,
                    cur_time, reg, frames, wq, res, depth0, waits, ret, calls,
                    ghosts >>

\* Lines 144-149: with die_on_fail, raise and the last line; else the return.
\* (line 144 missing: every rendered warning is fatal)
Die_always(c) ==
    /\ At(c, "die")
    /\ log' = Append(log, E(c, "raise", 0))
    /\ wq' = [wq EXCEPT ![c] = << E(c, "final_warning", 0) >>]
    /\ pc' = [pc EXCEPT ![c] = "exit"]
    /\ UNCHANGED << config, statics, now, in_critical_section, procs, proc, fn,
                    cur_time, reg, frames, res, depth0, waits, ret, calls,
                    ghosts >>

\* (lines 144-148 missing: no warning is fatal)
Die_never(c) ==
    /\ At(c, "die")
    /\ pc' = [pc EXCEPT ![c] = "return"]
    /\ UNCHANGED << config, statics, now, in_critical_section, procs, proc, fn,
                    cur_time, reg, frames, wq, res, depth0, waits, ret, log,
                    calls, ghosts >>

Die(c) ==
    /\ At(c, "die")
    /\ IF die_on_fail
       THEN /\ log' = Append(log, E(c, "raise", 0))
            /\ wq' = [wq EXCEPT ![c] = << E(c, "final_warning", 0) >>]
            /\ pc' = [pc EXCEPT ![c] = "exit"]
       ELSE /\ pc' = [pc EXCEPT ![c] = "return"]
            /\ UNCHANGED << log, wq >>
    /\ UNCHANGED << config, statics, now, in_critical_section, procs, proc, fn,
                    cur_time, reg, frames, res, depth0, waits, ret, calls,
                    ghosts >>

\* php_warning returns (lines 102 and 149): its locals are gone.
Return(c) ==
    /\ At(c, "return")
    /\ pc' = [pc EXCEPT ![c] = after_warning(fn[c])]
    /\ cur_time' = [cur_time EXCEPT ![c] = 0]
    /\ reg' = [reg EXCEPT ![c] = 0]
    /\ buffer' = [buffer EXCEPT ![c] = << >>]
    /\ nptrs' = [nptrs EXCEPT ![c] = 0]
    /\ scheduler_id' = [scheduler_id EXCEPT ![c] = 0]
    /\ buffer2' = [buffer2 EXCEPT ![c] = << >>]
    /\ ret' = [ret EXCEPT ![c] = "idle"]
    /\ UNCHANGED << config, statics, now, in_critical_section, procs, proc, fn,
                    wq, res, depth0, waits, log, calls, ghosts >>

\* The process of a forked child k ends: nothing of k is left.
Gone(k) ==
    /\ procs' = [procs EXCEPT ![proc[k]] = "exited"]
    /\ in_critical_section' = [in_critical_section EXCEPT ![proc[k]] = 0]
    /\ pc' = [pc EXCEPT ![k] = "idle"]
    /\ fn' = [fn EXCEPT ![k] = "warning"]
    /\ cur_time' = [cur_time EXCEPT ![k] = 0]
    /\ reg' = [reg EXCEPT ![k] = 0]
    /\ buffer' = [buffer EXCEPT ![k] = << >>]
    /\ nptrs' = [nptrs EXCEPT ![k] = 0]
    /\ scheduler_id' = [scheduler_id EXCEPT ![k] = 0]
    /\ buffer2' = [buffer2 EXCEPT ![k] = << >>]
    /\ wq' = [wq EXCEPT ![k] = << >>]
    /\ res' = [res EXCEPT ![k] = "none"]
    /\ depth0' = [depth0 EXCEPT ![k] = 0]
    /\ waits' = [waits EXCEPT ![k] = 0]
    /\ ret' = [ret EXCEPT ![k] = "idle"]

\* ------------------------------------------------- php_assert.cpp:151-156
\* php_assert__ after its php_warning call returned: raise and the last line.
AssertRaise(c) ==
    /\ At(c, "assert_raise")
    /\ log' = Append(log, E(c, "raise", 0))
    /\ wq' = [wq EXCEPT ![c] = << E(c, "final_assert", 0) >>]
    /\ pc' = [pc EXCEPT ![c] = "exit"]
    /\ UNCHANGED << config, statics, now, in_critical_section, procs, proc, fn,
                    cur_time, reg, frames, res, depth0, waits, ret, calls,
                    ghosts >>

\* _exit(1), lines 147 and 155: the process of c is gone, all its threads too.
Exit(c) ==
    /\ At(c, "exit")
    /\ log' = Append(log, E(c, "_exit", 1))
    /\ IF proc[c] = 1
       THEN /\ procs' = [procs EXCEPT ![proc[c]] = "exited"]
            /\ UNCHANGED << in_critical_section, pc, fn, cur_time, reg, frames,
                            wq, res, depth0, waits, ret >>
       ELSE Gone(c)
    /\ UNCHANGED << config, statics, now, proc, calls, ghosts >>

\* ------------------------------------------------- php_assert.cpp:49-71
\* What a level-3 render can meet: readlink fails, fork fails, execlp of gdb
\* fails, or gdb starts.
Debuggers == { "no_exe", "no_fork", "no_gdb", "gdb" }

\* Level 3.  readlink("/proc/self/exe") fails: the line of line 69.
ReadlinkFails(c) ==
    /\ At(c, "readlink")
    /\ "no_exe" \in debugger
    /\ wq' = [wq EXCEPT ![c] = << E(c, "gdberr", 69) >>]
    /\ pc' = [pc EXCEPT ![c] = ret[c]]
    /\ UNCHANGED << config, statics, now, in_critical_section, procs, proc, fn,
                    cur_time, reg, frames, res, depth0, waits, ret, log, calls,
                    ghosts >>

\* (line 65 missing: a failed fork is silent)
ForkFails_silent(c) ==
    /\ At(c, "readlink")
    /\ "no_fork" \in debugger
    /\ pc' = [pc EXCEPT ![c] = ret[c]]
    /\ UNCHANGED << config, statics, now, in_critical_section, procs, proc, fn,
                    cur_time, reg, frames, wq, res, depth0, waits, ret, log,
                    calls, ghosts >>

\* fork fails (child_pid < 0): the line of line 65.
ForkFails(c) ==
    /\ At(c, "readlink")
    /\ "no_fork" \in debugger
    /\ wq' = [wq EXCEPT ![c] = << E(c, "gdberr", 65) >>]
    /\ pc' = [pc EXCEPT ![c] = ret[c]]
    /\ UNCHANGED << config, statics, now, in_critical_section, procs, proc, fn,
                    cur_time, reg, frames, res, depth0, waits, ret, log, calls,
                    ghosts >>

\* fork succeeds: the child k is a copy of c in a process p of its own, about
\* to exec gdb; c goes on to waitpid.  (k and p: the first that are free.)
Fork(c) ==
    /\ At(c, "readlink")
    /\ debugger \cap { "no_gdb", "gdb" } # { }
    /\ \E k \in Ctx \ {c}, p \in Proc \ {1} :
          /\ ~Running(k)
          /\ \A j \in Ctx \ {c} : j < k => Running(j)
          /\ procs[p] # "running"
          /\ \A q \in Proc \ {1} : q < p => procs[q] = "running"
          /\ procs' = [procs EXCEPT ![p] = "running"]
          /\ proc' = [proc EXCEPT ![k] = p]
          /\ in_critical_section' =
                 [in_critical_section EXCEPT ![p] = in_critical_section[proc[c]]]
          /\ pc' = [pc EXCEPT ![k] = "exec", ![c] = "wait"]
          /\ waits' = [waits EXCEPT ![c] = k, ![k] = 0]
          /\ fn' = [fn EXCEPT ![k] = fn[c]]
          /\ cur_time' = [cur_time EXCEPT ![k] = cur_time[c]]
          /\ reg' = [reg EXCEPT ![k] = reg[c]]
          /\ buffer' = [buffer EXCEPT ![k] = buffer[c]]
          /\ nptrs' = [nptrs EXCEPT ![k] = nptrs[c]]
          /\ scheduler_id' = [scheduler_id EXCEPT ![k] = scheduler_id[c]]
          /\ buffer2' = [buffer2 EXCEPT ![k] = buffer2[c]]
          /\ wq' = [wq EXCEPT ![k] = << >>]
          /\ res' = [res EXCEPT ![k] = res[c]]
          /\ depth0' = [depth0 EXCEPT ![k] = depth0[c]]
          /\ ret' = [ret EXCEPT ![k] = ret[c]]
          /\ log' = Append(log, E(k, "fork", p))
    /\ UNCHANGED << config, statics, now, calls, ghosts >>

\* Lines 58-60 in the child: execlp replaces the child by gdb, which prints the
\* backtrace of its parent and exits; or execlp fails, the child writes the line
\* of line 60 and returns from print_demangled_adresses.
Exec(k) ==
    /\ At(k, "exec")
    /\ \E started \in { b \in BOOLEAN :
                            (IF b THEN "gdb" ELSE "no_gdb") \in debugger } :
          IF started
          THEN /\ log' = Append(log, E(k, "gdb", 0))
               /\ Gone(k)
          ELSE /\ wq' = [wq EXCEPT ![k] = << E(k, "gdberr", 60) >>]
               /\ pc' = [pc EXCEPT ![k] = ret[k]]
               /\ UNCHANGED << log, procs, in_critical_section, fn, cur_time,
                               reg, frames, res, depth0, waits, ret >>
    /\ UNCHANGED << config, statics, now, proc, calls, ghosts >>

\* Line 63: waitpid returns once the child's process has exited.
Wait(c) ==
    /\ At(c, "wait")
    /\ procs[proc[waits[c]]] = "exited"
    /\ pc' = [pc EXCEPT ![c] = ret[c]]
    /\ waits' = [waits EXCEPT ![c] = 0]
    /\ UNCHANGED << config, statics, now, in_critical_section, procs, proc, fn,
                    cur_time, reg, frames, wq, res, depth0, ret, log, calls,
                    ghosts >>

\* A forked child that returned into the caller's code runs the rest of the
\* program as a second copy of it, to the program's end.
ChildRuns(k) ==
    /\ At(k, "idle")
    /\ proc[k] # 1
    /\ log' = Append(log, E(k, "program", 0))
    /\ Gone(k)
    /\ UNCHANGED << config, statics, now, proc, calls, ghosts >>

\* ------------------------------------------------- php_assert.cpp:158-160
\* raise_php_assert_signal__: the caller raises the signal itself; the function
\* returns and the caller runs on.
raise_php_assert_signal(c) ==
    /\ At(c, "idle")
    /\ proc[c] = 1
    /\ fn' = [fn EXCEPT ![c] = "raise"]
    /\ res' = [res EXCEPT ![c] = "none"]
    /\ depth0' = [depth0 EXCEPT ![c] = in_critical_section[proc[c]]]
    /\ log' = Append(IF Quiet(c) THEN << >> ELSE log, E(c, "raise", 0))
    /\ UNCHANGED << config, statics, now, in_critical_section, procs, proc, pc,
                    cur_time, reg, frames, wq, waits, ret, ghosts >>

\* ------------------------------------------------------------------ specs
CountStep(c) ==
    \/ Rollover(c)
    \/ LoadPrinted(c)
    \/ StorePrinted(c)
    \/ TestLimit(c)

\* The rest of lines 88-95, taken when a window ends.
WindowStep(c) ==
    \/ ResetPrinted(c)
    \/ ResetTime(c)
    \/ TestSkipped(c)
    \/ Notice(c)
    \/ ResetSkipped(c)

SkipStep(c) ==
    \/ TestFirst(c)
    \/ LimitLine(c)
    \/ LoadSkipped(c)
    \/ StoreSkipped(c)

RenderStep(c) ==
    \/ Enter(c)
    \/ Write(c)
    \/ Capture(c)
    \/ PrintSegment(c)
    \/ Close(c)
    \/ Leave(c)
    \/ Hook(c)
    \/ invoke_callback(c)
    \/ Die(c)
    \/ Return(c)

SpliceStep(c) == Query(c)

EndStep(c) ==
    \/ AssertRaise(c)
    \/ Exit(c)

GdbStep(c) ==
    \/ ReadlinkFails(c)
    \/ ForkFails(c)
    \/ Fork(c)
    \/ Exec(c)
    \/ Wait(c)
    \/ ChildRuns(c)

Fns == { "warning", "assert" }

\* The locals of a context that has made no call yet.
InitLocals ==
    /\ pc = [c \in Ctx |-> "idle"]
    /\ fn = [c \in Ctx |-> "warning"]
    /\ cur_time = [c \in Ctx |-> 0]
    /\ reg = [c \in Ctx |-> 0]
    /\ buffer = [c \in Ctx |-> << >>]
    /\ nptrs = [c \in Ctx |-> 0]
    /\ scheduler_id = [c \in Ctx |-> 0]
    /\ buffer2 = [c \in Ctx |-> << >>]
    /\ wq = [c \in Ctx |-> << >>]
    /\ res = [c \in Ctx |-> "none"]
    /\ depth0 = [c \in Ctx |-> 0]
    /\ waits = [c \in Ctx |-> 0]
    /\ ret = [c \in Ctx |-> "idle"]
    /\ log = << >>
    /\ calls = 0

\* The statics after p enabled calls at time 0, none of them past the cap: all
\* p were rendered (p = 0: the statics as the program starts).
InitStatics(p) ==
    /\ warnings_printed = p
    /\ warnings_count_time = 0
    /\ skipped = 0
    /\ now = 0
    /\ win_calls = p
    /\ win_rendered = p

\* One thread of the original process and no other context.
OneThread ==
    /\ procs = [p \in Proc |-> IF p = 1 THEN "running" ELSE "none"]
    /\ proc = [c \in Ctx |-> IF c = 1 THEN 1 ELSE 0]

\* Spec: one thread, every configuration, two stacks; the program starts, or
\* is two warnings or one warning short of the limit; the caller may be in a
\* critical section.
Init ==
    /\ php_warning_level \in 0 .. 3
    /\ php_disable_warnings \in 0 .. 1
    /\ die_on_fail \in BOOLEAN
    /\ stacks = "some"
    /\ symbols_ok \in IF php_warning_level = 2 THEN BOOLEAN ELSE { TRUE }
    /\ debugger \in IF php_warning_level = 3
                    THEN { { d } : d \in Debuggers }
                    ELSE { { } }
    /\ \E p \in { 0, warnings_time_limit - 2, warnings_time_limit - 1 } :
          InitStatics(p)
    /\ in_critical_section \in [Proc -> 0 .. MaxDepth]
    /\ \A p \in Proc \ {1} : in_critical_section[p] = 0
    /\ OneThread
    /\ InitLocals

BoundedCall ==
    \E c \in Ctx, f \in Fns :
        /\ calls < MaxCalls
        /\ calls' = calls + 1
        /\ Call(c, f, TimeReadings)

BoundedRaise ==
    \E c \in Ctx :
        /\ calls < MaxCalls
        /\ calls' = calls + 1
        /\ raise_php_assert_signal(c)

Next ==
    \/ BoundedCall
    \/ BoundedRaise
    \/ \E c \in Ctx :
          \/ CountStep(c)
          \/ WindowStep(c)
          \/ SkipStep(c)
          \/ RenderStep(c)
          \/ SpliceStep(c)
          \/ EndStep(c)
          \/ GdbStep(c)

Spec == Init /\ [][Next]_vars

\* The starts of FairSpec: those of Spec with the caller outside any critical
\* section, at the start of the program or one warning short of the limit.
InitLive ==
    /\ Init
    /\ warnings_printed \in { 0, warnings_time_limit - 1 }
    /\ in_critical_section[1] = 0

\* Every context that can run does run: the threads are scheduled, and a
\* started debugger ends.
FairSpec == InitLive /\ [][Next]_vars /\ WF_vars(Next)

\* SpecFrames: one thread at levels 1 to 3 with every stack of up to MaxFrames
\* frames; the program starts.
InitFrames ==
    /\ php_warning_level \in 1 .. 3
    /\ php_disable_warnings = 0
    /\ die_on_fail = FALSE
    /\ stacks = "all"
    /\ symbols_ok \in IF php_warning_level = 2 THEN BOOLEAN ELSE { TRUE }
    /\ debugger \in IF php_warning_level = 3
                    THEN { { d } : d \in Debuggers }
                    ELSE { { } }
    /\ InitStatics(0)
    /\ in_critical_section = [p \in Proc |-> 0]
    /\ OneThread
    /\ InitLocals

FramesCall ==
    \E c \in Ctx :
        /\ calls < MaxCalls
        /\ calls' = calls + 1
        /\ Call(c, "warning", { now })

NextFrames ==
    \/ FramesCall
    \/ \E c \in Ctx :
          \/ CountStep(c)
          \/ RenderStep(c)
          \/ SpliceStep(c)
          \/ GdbStep(c)

SpecFrames == InitFrames /\ [][NextFrames]_vars

\* SpecRate: one thread at level 1 calling php_warning from the program's start
\* until MaxExtra calls beyond the cap fell into one window; the program starts
\* at time 0 or at the start of the last window an int can hold the end of.
InitRate ==
    /\ php_warning_level = 1
    /\ php_disable_warnings = 0
    /\ die_on_fail = FALSE
    /\ stacks = "none"
    /\ symbols_ok = TRUE
    /\ debugger = { }
    /\ warnings_printed = 0
    /\ warnings_count_time = 0
    /\ skipped = 0
    /\ now \in { 0, LastWindow }
    /\ win_calls = 0
    /\ win_rendered = 0
    /\ in_critical_section = [p \in Proc |-> 0]
    /\ OneThread
    /\ InitLocals

RateCall ==
    \E c \in Ctx :
        /\ warnings_printed < warnings_time_limit + MaxExtra
        /\ UNCHANGED calls
        /\ Call(c, "warning", TimeReadings)

NextRate ==
    \/ RateCall
    \/ \E c \in Ctx :
          \/ CountStep(c)
          \/ WindowStep(c)
          \/ SkipStep(c)
          \/ RenderStep(c)

SpecRate == InitRate /\ [][NextRate]_vars

\* SpecConc: two threads of one process at level 1 sharing the statics and
\* stderr, three warnings or one warning short of the cap.
InitConc ==
    /\ php_warning_level = 1
    /\ php_disable_warnings = 0
    /\ die_on_fail = FALSE
    /\ stacks = "none"
    /\ symbols_ok = TRUE
    /\ debugger = { }
    /\ \E p \in { warnings_time_limit - 3, warnings_time_limit - 1 } :
          InitStatics(p)
    /\ in_critical_section = [p \in Proc |-> 0]
    /\ procs = [p \in Proc |-> IF p = 1 THEN "running" ELSE "none"]
    /\ proc = [c \in Ctx |-> IF c <= 2 THEN 1 ELSE 0]
    /\ InitLocals

ConcCall ==
    \E c \in Ctx :
        /\ calls < MaxConcCalls
        /\ calls' = calls + 1
        /\ Call(c, "warning", { now })

NextConc ==
    \/ ConcCall
    \/ \E c \in Ctx :
          \/ CountStep(c)
          \/ SkipStep(c)
          \/ RenderStep(c)

SpecConc == InitConc /\ [][NextConc]_vars

\* ================================================================ claims
\* Every context is in its caller's code and every write has reached stderr.
Quiescent == \A c \in Ctx : Running(c) => pc[c] = "idle" /\ wq[c] = << >>

\* ---------------------------------------------------------------------
\* C1 (as claimed): once N > cap enabled calls fell into one rate window,
\* exactly cap of them rendered a report and N - cap were counted skipped.
C1_CapRenderedRestSkipped ==
    (Quiescent /\ win_calls > warnings_time_limit)
        => /\ win_rendered = warnings_time_limit
           /\ skipped = win_calls - warnings_time_limit

\* ---------------------------------------------------------------------
\* C5 (as claimed): the rollover statement of a call at time t leaves the
\* statics alone when t - window_start < 300, and when t - window_start >= 300
\* it zeroes the emitted counter and makes t the window's start; this holds
\* for every window.
C5_RolloverAt(c) ==
    /\ pc[c] = "rollover" /\ pc'[c] # "rollover"
           => IF cur_time[c] - warnings_count_time < warnings_time_period
              THEN /\ pc'[c] = "load"
                   /\ warnings_printed' = warnings_printed
                   /\ warnings_count_time' = warnings_count_time
                   /\ skipped' = skipped
              ELSE pc'[c] = reset_label(Resets)
    /\ "printed" \in reset_left(pc[c]) \ reset_left(pc'[c])
           => warnings_printed' = 0
    /\ "time" \in reset_left(pc[c]) \ reset_left(pc'[c])
           => warnings_count_time' = cur_time[c]

C5_WindowResetsExactlyAtPeriod == [][\A c \in Ctx : C5_RolloverAt(c)]_vars

\* ------------------------------------------------------- reading the log
Range(q) == { q[i] : i \in 1 .. Len(q) }

\* The number of entries of the log that context c made with a kind in K.
Count(c, K) ==
    Cardinality({ i \in 1 .. Len(log) : log[i].ctx = c /\ log[i].kind \in K })

\* Every entry of c with a kind in B comes after one of c with a kind in A.
Precedes(c, A, B) ==
    \A j \in 1 .. Len(log) :
        (log[j].ctx = c /\ log[j].kind \in B)
            => \E i \in 1 .. (j - 1) : log[i].ctx = c /\ log[i].kind \in A

FinalLines == { "final_warning", "final_assert" }

\* Where the log records that the process now in context c was forked (0 for
\* a thread of the first process).
Born(c) ==
    IF \E i \in 1 .. Len(log) : log[i].ctx = c /\ log[i].kind = "fork"
    THEN CHOOSE i \in 1 .. Len(log) :
             /\ log[i].ctx = c /\ log[i].kind = "fork"
             /\ \A j \in (i + 1) .. Len(log) :
                    ~(log[j].ctx = c /\ log[j].kind = "fork")
    ELSE 0

\* The hook invocations of the process in context c.
Hooks(c) ==
    Cardinality({ i \in (Born(c) + 1) .. Len(log) :
                    log[i].ctx = c /\ log[i].kind = "invoke_callback" })

\* ---------------------------------------------------------------------
\* C2: a call of php_assert__ never returns to its caller; SIGPHPASSERT is
\* raised before the final line is printed and the final line before _exit;
\* and no context stays inside php_assert__: the process of each one ends.
C2_NeverReturnsRaiseFirst ==
    \A c \in Ctx :
        /\ (Running(c) /\ fn[c] = "assert") => pc[c] # "idle"
        /\ Precedes(c, { "raise" }, FinalLines)
        /\ Precedes(c, FinalLines, { "_exit" })

C2_AssertAlwaysTerminates ==
    /\ []C2_NeverReturnsRaiseFirst
    /\ <>[](\A c \in Ctx : ~(Running(c) /\ fn[c] = "assert"))

\* php_assert__ ended the process although the rate limit was exhausted.
C2_Witness ==
    /\ procs[1] = "exited"
    /\ fn[1] = "assert"
    /\ res[1] = "limited"
    /\ Count(1, { "raise" }) = 1

\* ---------------------------------------------------------------------
\* C3 (as claimed): on stderr the lines of one report, from its header to its
\* closing banner, are contiguous: no line of another context lies between.
ReportKinds ==
    { "header", "message", "banner", "addr", "sym", "raw", "fd", "gdb",
      "gdberr", "closing" }

C3_ReportsNeverInterleave ==
    \A i \in 1 .. Len(Stderr), k \in 1 .. Len(Stderr) :
        ( /\ i < k
          /\ Stderr[i].ctx = Stderr[k].ctx
          /\ Stderr[i].kind \in ReportKinds
          /\ Stderr[k].kind \in ReportKinds
          /\ \A m \in (i + 1) .. k :
                ~(Stderr[m].ctx = Stderr[i].ctx /\ Stderr[m].kind = "header") )
            => \A j \in i .. k : Stderr[j].ctx = Stderr[i].ctx

\* ---------------------------------------------------------------------
\* C4 (as claimed): with two threads in php_warning, the reports rendered in
\* one window never exceed the cap, and rendered + skipped is the number of
\* enabled calls made.
C4_CountersExactUnderThreads ==
    Quiescent
        => /\ win_rendered <= warnings_time_limit
           /\ win_rendered + skipped = win_calls

\* ------------------------------------------------------ reading a report
\* The report of c is written and php_warning has not returned yet.
Done(c) ==
    Running(c) /\ pc[c] \in { "leave", "hook", "invoke", "die" } /\ wq[c] = << >>

FrameKinds == { "addr", "sym", "raw", "fd" }

DebuggerKinds == { "gdb", "gdberr" }

\* The addresses of the frame lines c wrote, in stderr's order.
FrameLines(c) ==
    LET IsFrameLine(e) == e.ctx = c /\ e.kind \in FrameKinds
        s == SelectSeq(log, IsFrameLine)
    IN  [i \in 1 .. Len(s) |-> s[i].val]

\* The debugger lines on stderr, whoever wrote them.
DebuggerLines == Cardinality({ i \in 1 .. Len(log) : log[i].kind \in DebuggerKinds })

Queried == \E i \in 1 .. Len(log) : log[i].kind = "get_resumable_stack"

\* The scheduler's region, as the claims speak of it.
InRegion(a) ==
    a \in start_run_scheduler_section .. stop_run_scheduler_section

\* The 0-based index of the innermost frame of buf[1 .. n] in the region.
Innermost(buf, n) ==
    (CHOOSE i \in 1 .. n :
         InRegion(buf[i]) /\ \A j \in 1 .. (i - 1) : ~InRegion(buf[j])) - 1

\* The frames php_warning keeps of a capture: all of them, but at level 1 all
\* but the two outermost.
Kept(c) ==
    IF php_warning_level = 1 THEN Max(Len(buffer[c]) - 2, 0)
    ELSE Len(buffer[c])

\* The spliced report over the first n frames with the boundary at id.
Spliced(c, id, n) ==
    SubSeq(buffer[c], 1, id) \o buffer2[c] \o SubSeq(buffer[c], id + 1, n)

\* ---------------------------------------------------------------------
\* C6 (as claimed): at levels 1 to 3, when a captured frame lies in the
\* scheduler's region, the boundary is the innermost such frame among all
\* captured frames and the report is frames [0, index), the cooperative
\* frames, frames [index, n).
C6_BoundaryAmongAllCaptured ==
    \A c \in Ctx :
        (Done(c) /\ \E i \in 1 .. Len(buffer[c]) : InRegion(buffer[c][i]))
            => LET n == Len(buffer[c])
                   id == Innermost(buffer[c], n)
               IN  /\ scheduler_id[c] = id
                   /\ Queried
                   /\ php_warning_level <= 2
                          => FrameLines(c) = Spliced(c, id, n)
                   /\ php_warning_level = 3 => DebuggerLines >= 3

\* C6 (amended): the same of the frames php_warning keeps, which at level 1
\* are all but the two outermost captured ones: when a kept frame lies in the
\* region, the boundary is the innermost such frame and the report is kept
\* frames [0, index), the cooperative frames, kept frames [index, kept).
C6_BoundaryAmongKept ==
    \A c \in Ctx :
        (Done(c) /\ \E i \in 1 .. Kept(c) : InRegion(buffer[c][i]))
            => LET n == Kept(c)
                   id == Innermost(buffer[c], n)
               IN  /\ scheduler_id[c] = id
                   /\ Queried
                   /\ php_warning_level <= 2
                          => FrameLines(c) = Spliced(c, id, n)
                   /\ php_warning_level = 3 => DebuggerLines >= 3

\* A level-1 report spliced at a boundary, with cooperative frames in it.
C6_Witness ==
    /\ Done(1)
    /\ php_warning_level = 1
    /\ scheduler_id[1] < nptrs[1]
    /\ Len(buffer2[1]) >= 2
    /\ Len(FrameLines(1)) >= 3

\* ---------------------------------------------------------------------
\* C7 (as claimed): when no captured frame lies in the scheduler's region, the
\* boundary index is the number of captured frames, get_resumable_stack is not
\* queried and the report is one segment of the captured frames (at level 3,
\* one debugger run).
C7_NoBoundaryAmongAllCaptured ==
    \A c \in Ctx :
        (Done(c) /\ \A i \in 1 .. Len(buffer[c]) : ~InRegion(buffer[c][i]))
            => /\ scheduler_id[c] = Len(buffer[c])
               /\ ~Queried
               /\ php_warning_level <= 2 => FrameLines(c) = buffer[c]
               /\ php_warning_level = 3 => DebuggerLines = 1

\* C7 (amended): the same of the frames php_warning keeps, which at level 1
\* are all but the two outermost captured ones: when no kept frame lies in
\* the region, the boundary index is the number of kept frames,
\* get_resumable_stack is not queried and the report is one segment of the
\* kept frames (at level 3, one debugger run).
C7_NoBoundaryNoSplice ==
    \A c \in Ctx :
        (Done(c) /\ \A i \in 1 .. Kept(c) : ~InRegion(buffer[c][i]))
            => /\ scheduler_id[c] = Kept(c)
               /\ ~Queried
               /\ php_warning_level <= 2
                      => FrameLines(c) = SubSeq(buffer[c], 1, Kept(c))
               /\ php_warning_level = 3 => DebuggerLines = 1

\* A level-1 report of a capture of three frames whose outermost is the
\* scheduler's: the one kept frame is printed and nothing is spliced.
C7_Witness ==
    /\ Done(1)
    /\ php_warning_level = 1
    /\ Len(buffer[1]) = 3
    /\ InRegion(buffer[1][3])
    /\ ~InRegion(buffer[1][1])
    /\ scheduler_id[1] = 1
    /\ ~Queried
    /\ FrameLines(1) = << buffer[1][1] >>

\* ---------------------------------------------------------------------
\* The lines of c's report that are a bare address.
AddressLines(c) == Count(c, { "addr" })

CoopLines(c) == IF scheduler_id[c] < nptrs[c] THEN Len(buffer2[c]) ELSE 0

\* C8 (as claimed): at level 1 the backtrace has one bare-address line per
\* frame fast_backtrace returned (plus the cooperative frames at a boundary).
C8_OneLinePerCapturedFrame ==
    \A c \in Ctx :
        (Done(c) /\ php_warning_level = 1)
            => /\ AddressLines(c) = Len(buffer[c]) + CoopLines(c)
               /\ Count(c, FrameKinds \ { "addr" }) = 0

\* C8 (amended): at level 1 the backtrace has one bare-address line per frame
\* fast_backtrace returned except the two outermost (none when it returned
\* fewer than two), plus the cooperative frames at a boundary.
C8_OneLinePerKeptFrame ==
    \A c \in Ctx :
        (Done(c) /\ php_warning_level = 1)
            => /\ AddressLines(c) = Max(Len(buffer[c]) - 2, 0) + CoopLines(c)
               /\ Count(c, FrameKinds \ { "addr" }) = 0

\* A level-1 report of a capture of three frames: one line.
C8_Witness ==
    /\ Done(1)
    /\ php_warning_level = 1
    /\ Len(buffer[1]) = 3
    /\ scheduler_id[1] = nptrs[1]
    /\ AddressLines(1) = 1

\* ---------------------------------------------------------------------
\* The hook invocations and the report headers in the log, whoever made
\* them.  A rendered call writes one header, before it forks or invokes.
AllHooks ==
    Cardinality({ i \in 1 .. Len(log) : log[i].kind = "invoke_callback" })

Headers == Cardinality({ i \in 1 .. Len(log) : log[i].kind = "header" })

\* C9 (as claimed): the hook is invoked at most once for each php_warning
\* call, so never more often than reports were rendered; not for a suppressed
\* call (disabled, level 0, rate-limited), not for a call whose caller was in
\* a critical section, and only after the call left its own critical section.
C9_HookAtMostOncePerCall ==
    /\ AllHooks <= Headers
    /\ \A c \in Ctx :
          Running(c)
              => /\ Hooks(c) <= 1
                 /\ Hooks(c) = 1
                        => /\ res[c] = "rendered"
                           /\ depth0[c] = 0
                           /\ pc[c] \in { "die", "return", "idle", "exit",
                                          "assert_raise" }

\* ---------------------------------------------------------------------
\* The statements between enter_critical_section and leave_critical_section.
HeldLabels ==
    PrintLabels \cup { "capture", "query", "readlink", "exec", "wait", "close",
                       "leave" }

\* C10: the nesting depth is its value at the call's entry on every path out
\* of php_warning and php_assert__ (return, die_on_fail exit, assertion exit)
\* and before the acquisition; it is one more only between lines 105 and 140.
C10_CriticalSectionBalanced ==
    \A c \in Ctx :
        /\ (Running(c) /\ res[c] # "none")
               => in_critical_section[proc[c]]
                      = depth0[c] + (IF pc[c] \in HeldLabels THEN 1 ELSE 0)
        /\ (proc[c] = 1 /\ procs[1] = "exited")
               => in_critical_section[1] = depth0[c]

\* die_on_fail ended the process after a rendered warning whose caller was in
\* a critical section: the depth is the caller's again.
C10_Witness ==
    /\ procs[1] = "exited"
    /\ fn[1] = "warning"
    /\ res[1] = "rendered"
    /\ depth0[1] = 1
    /\ in_critical_section[1] = 1

\* ---------------------------------------------------------------------
\* The lines and calls by which this subsystem ends a process.
FatalKinds == { "raise", "final_warning", "final_assert", "_exit" }

\* C11: with die_on_fail off a php_warning call never ends the process: it
\* raises no signal, prints no final line, never reaches _exit, and in the end
\* every php_warning call has returned to its caller.
C11_NeverFatal ==
    ~die_on_fail
        => /\ \A i \in 1 .. Len(log) : log[i].kind # "final_warning"
           /\ \A c \in Ctx :
                 /\ (Running(c) /\ fn[c] = "warning")
                        => /\ pc[c] # "exit"
                           /\ \A e \in Range(wq[c]) : e.kind \notin FatalKinds
                 /\ (proc[c] = 1 /\ procs[1] = "exited") => fn[c] = "assert"

C11_WarningAlwaysReturns ==
    /\ []C11_NeverFatal
    /\ <>[](~die_on_fail
              => \A c \in Ctx :
                    (Running(c) /\ fn[c] = "warning")
                        => pc[c] = "idle" /\ wq[c] = << >>)

\* Two rendered level-3 warnings with the toggle off: the process runs on.
C11_Witness ==
    /\ ~die_on_fail
    /\ php_warning_level = 3
    /\ calls >= 2
    /\ procs[1] = "running"
    /\ fn[1] = "warning"
    /\ res[1] = "rendered"
    /\ pc[1] = "idle"
    /\ Count(1, { "closing" }) = 1

\* ---------------------------------------------------------------------
\* The kinds of the lines on stderr, in order.
StderrKinds == [i \in 1 .. Len(Stderr) |-> Stderr[i].kind]

\* C12 (as claimed): a warning the rate limiter stopped has written nothing
\* at all to stderr.
C12_SuppressedWritesNothing ==
    \A c \in Ctx : (Running(c) /\ res[c] = "limited") => Stderr = << >>

\* C12 (amended): a warning the rate limiter stopped increments skipped by
\* exactly one, leaves the other counters alone and writes no report; the one
\* that brought warnings_printed to the limit has written the single line
\* "Warnings limit reached", every later one of the window nothing at all.
C12_StoppedWarning ==
    \A c \in Ctx :
        (Running(c) /\ res[c] = "limited")
            => /\ warnings_printed >= warnings_time_limit
               /\ StderrKinds = IF warnings_printed = warnings_time_limit
                                THEN << "limit" >>
                                ELSE << >>

C12_SkipStep(c) ==
    (res[c] # "limited" /\ res'[c] = "limited")
        => /\ skipped' = skipped + 1
           /\ warnings_printed' = warnings_printed
           /\ warnings_count_time' = warnings_count_time
           /\ log' = log

C12_SuppressedCountedOnceOneLine ==
    /\ []C12_StoppedWarning
    /\ [][\A c \in Ctx : C12_SkipStep(c)]_vars

\* The third stopped warning of a window: counted, and stderr is empty.
C12_Witness ==
    /\ res[1] = "limited"
    /\ pc[1] = "idle"
    /\ warnings_printed = warnings_time_limit + 2
    /\ skipped = 3
    /\ Stderr = << >>

\* ---------------------------------------------------------------------
\* The frame lines c wrote, in stderr's order.
FrameEntries(c) ==
    LET IsFrameLine(e) == e.ctx = c /\ e.kind \in FrameKinds
    IN  SelectSeq(log, IsFrameLine)

\* A frame line as per-frame handling renders it: the demangled name of a
\* frame whose symbol can be named, the raw address of one whose cannot.
PerFrame(e) == e.kind = (IF e.val \in Resolvable THEN "sym" ELSE "raw")

\* C13 (as claimed): at level 2 every frame of a report is rendered on its
\* own: a resolvable frame as its demangled name, an unresolvable one as its
\* raw address, and none is dropped.
C13_EveryFramePerFrame ==
    \A c \in Ctx :
        (Done(c) /\ php_warning_level = 2)
            => /\ Len(FrameEntries(c)) = nptrs[c] + CoopLines(c)
               /\ \A i \in 1 .. Len(FrameEntries(c)) : PerFrame(FrameEntries(c)[i])

\* C13 (amended): at level 2, when get_demangled_backtrace reports success
\* every frame is rendered on its own (name or raw address) and none is
\* dropped; when it reports failure the whole segment is printed by
\* backtrace_symbols_fd instead, one line per frame, none demangled.
C13_PerFrameOrWholeSegmentFallback ==
    \A c \in Ctx :
        (Done(c) /\ php_warning_level = 2)
            => /\ Len(FrameEntries(c)) = nptrs[c] + CoopLines(c)
               /\ \A i \in 1 .. Len(FrameEntries(c)) :
                     IF symbols_ok THEN PerFrame(FrameEntries(c)[i])
                     ELSE FrameEntries(c)[i].kind = "fd"

\* A segment with an unresolvable frame between two resolvable ones.
C13_Witness ==
    /\ Done(1)
    /\ php_warning_level = 2
    /\ symbols_ok
    /\ Len(FrameEntries(1)) = 3
    /\ FrameEntries(1)[1].kind = "sym"
    /\ FrameEntries(1)[2].kind = "raw"
    /\ FrameEntries(1)[3].kind = "sym"

\* ---------------------------------------------------------------------
\* The "Can't print backtrace with gdb: ..." line a failure leaves, by the
\* source line that prints it.
FailureLine(c, line) == << E(c, "gdberr", line) >>

\* C14: at level 3 a failed readlink, a failed fork and a failed exec each
\* leave their explanatory line on stderr; otherwise gdb was started, and
\* php_warning goes on only after the forked process has exited.
C14_DebuggerStep(c) ==
    /\ (pc[c] = "readlink" /\ pc'[c] \notin { "readlink", "wait" })
           => wq'[c] = FailureLine(c, IF "no_exe" \in debugger THEN 69 ELSE 65)
    /\ (pc[c] = "readlink" /\ pc'[c] = "wait")
           => procs'[proc'[waits'[c]]] = "running"
    /\ (Running(c) /\ pc[c] = "exec" /\ pc'[c] # "exec")
           => \/ log' = Append(log, E(c, "gdb", 0)) /\ ~Running(c)'
              \/ wq'[c] = FailureLine(c, 60)
    /\ (pc[c] = "wait" /\ pc'[c] # "wait")
           => ~Running(waits[c])

C14_NoSilentFailure ==
    (php_warning_level = 3 /\ \E c \in Ctx : Done(c)) => DebuggerLines >= 1

C14_FailuresExplainedElseWaits ==
    /\ []C14_NoSilentFailure
    /\ [][\A c \in Ctx : C14_DebuggerStep(c)]_vars

\* The child could not exec gdb and has written its line; its parent waits.
C14_Witness ==
    /\ php_warning_level = 3
    /\ pc[1] = "wait"
    /\ Running(waits[1])
    /\ \E i \in 1 .. Len(Stderr) :
          Stderr[i] = E(waits[1], "gdberr", 60)

\* ---------------------------------------------------------------------
\* C15: a php_warning call at level 0 or with warnings disabled has no
\* effect: nothing reaches stderr, the rate-window counters and the depth of
\* the critical section are as before, no hook is invoked, and the process
\* runs on in its caller even with die_on_fail set.
C15_OffCall ==
    ( /\ calls' = calls + 1
      /\ fn'[1] = "warning"
      /\ php_warning_level = 0 \/ php_disable_warnings # 0 )
        => /\ warnings_printed' = warnings_printed
           /\ warnings_count_time' = warnings_count_time
           /\ skipped' = skipped
           /\ in_critical_section' = in_critical_section
           /\ procs' = procs
           /\ log' = << >>
           /\ wq'[1] = << >>
           /\ pc'[1] = "idle"

C15_OffState ==
    \A c \in Ctx :
        ( /\ Running(c)
          /\ fn[c] = "warning"
          /\ php_warning_level = 0 \/ php_disable_warnings # 0 )
            => pc[c] = "idle" /\ log = << >> /\ wq[c] = << >>

C15_DisabledCallHasNoEffect ==
    /\ []C15_OffState
    /\ [][C15_OffCall]_vars

\* Two calls with warnings disabled, at level 2, one warning short of the
\* limit and with die_on_fail set: nothing has happened.
C15_Witness ==
    /\ php_disable_warnings = 1
    /\ php_warning_level = 2
    /\ die_on_fail
    /\ calls >= 2
    /\ fn[1] = "warning"
    /\ res[1] = "disabled"
    /\ procs[1] = "running"
    /\ warnings_printed = warnings_time_limit - 1
    /\ skipped = 0

\* ---------------------------------------------------------------------
\* C16: the notice "Resuming writing warnings: K skipped" is written exactly
\* by a rollover that finds skipped > 0: once, with K the number of warnings
\* stopped in the window that ended, before the header of the warning that
\* rolled the window over; skipped is 0 afterwards; a rollover with
\* skipped = 0 and the later warnings of the window write none.
C16_RolloverStep(c) ==
    /\ pc[c] = "rollover" /\ pc'[c] = reset_label(Resets)
           => skipped = win_calls - win_rendered
    /\ pc[c] = "rollover" /\ pc'[c] = "load"
           => wq'[c] = << >> /\ skipped' = skipped
    /\ reset_left(pc[c]) # { } /\ pc'[c] = "load"
           => skipped = 0 /\ wq'[c] = << >> /\ skipped' = 0
    /\ reset_left(pc[c]) # { } /\ pc'[c] = "notice"
           => skipped > 0
    /\ pc[c] = "notice" /\ pc'[c] # "notice"
           => wq'[c] = << E(c, "notice", skipped) >> /\ pc'[c] = "reset_skipped"
    /\ pc[c] = "reset_skipped" /\ pc'[c] # "reset_skipped"
           => skipped' = 0 /\ pc'[c] = "load"

C16_NoticeFirst ==
    /\ \A i \in 1 .. Len(Stderr) : Stderr[i].kind = "notice" => i = 1
    /\ \A c \in Ctx :
          \A e \in Range(wq[c]) :
              e.kind = "notice" => pc[c] = "reset_skipped" /\ log = << >>

C16_NoticeExactlyAtRollover ==
    /\ []C16_NoticeFirst
    /\ [][\A c \in Ctx : C16_RolloverStep(c)]_vars

\* The notice of two stopped warnings, then the header of the warning that
\* opened the new window.
C16_Witness ==
    /\ Len(Stderr) >= 2
    /\ Stderr[1] = E(1, "notice", 2)
    /\ Stderr[2].kind = "header"
    /\ skipped = 0
    /\ warnings_printed = 1
    /\ warnings_count_time = warnings_time_period

\* ---------------------------------------------------------------------
\* c has searched its frames for the scheduler (line 126 is done).
Searched(c) ==
    /\ Running(c)
    /\ res[c] = "rendered"
    /\ pc[c] \notin { "capture", "return", "idle" }

\* C17: the scheduler's section is closed at both ends: a kept frame at the
\* start address or at the stop address is inside and is the boundary when no
\* frame before it is inside; a frame below start or above stop is never the
\* boundary.
C17_InclusiveBounds ==
    \A c \in Ctx :
        Searched(c)
            => /\ \A i \in 1 .. nptrs[c] :
                     ( \/ buffer[c][i] = start_run_scheduler_section
                       \/ buffer[c][i] = stop_run_scheduler_section )
                         => scheduler_id[c] < i
               /\ scheduler_id[c] < nptrs[c]
                     => /\ buffer[c][scheduler_id[c] + 1]
                               >= start_run_scheduler_section
                        /\ buffer[c][scheduler_id[c] + 1]
                               <= stop_run_scheduler_section
               /\ \A i \in 1 .. scheduler_id[c] :
                     \/ buffer[c][i] < start_run_scheduler_section
                     \/ buffer[c][i] > stop_run_scheduler_section

\* The frame at the stop address is the boundary, after a frame above it and
\* one below the start.
C17_Witness ==
    /\ Done(1)
    /\ php_warning_level = 2
    /\ nptrs[1] = 3
    /\ buffer[1][1] = stop_run_scheduler_section + 1
    /\ buffer[1][2] = start_run_scheduler_section - 1
    /\ buffer[1][3] = stop_run_scheduler_section
    /\ scheduler_id[1] = 2
    /\ Queried

\* ---------------------------------------------------------------------
\* C18: with die_on_fail set php_warning ends the process exactly when the
\* warning was rendered: a disabled or rate-limited call returns without a
\* signal or an exit; a rendered one never returns, and reaches _exit only
\* after its closing banner, the release of the critical section and the
\* hook step, with the signal raised before the final line.
C18_FatalIffRendered ==
    die_on_fail
        => \A c \in Ctx :
              (Running(c) /\ fn[c] = "warning")
                  => /\ res[c] \in { "disabled", "limited" }
                         => /\ pc[c] \in { "return", "idle" }
                            /\ Count(c, FatalKinds) = 0
                            /\ \A e \in Range(wq[c]) : e.kind \notin FatalKinds
                     /\ res[c] = "rendered" => pc[c] \notin { "return", "idle" }
                     /\ pc[c] = "exit"
                         => /\ res[c] = "rendered"
                            /\ Count(c, { "closing" }) >= 1
                            /\ Count(c, { "raise" }) >= 1
                            /\ in_critical_section[proc[c]] = depth0[c]
                            /\ Hooks(c) = (IF depth0[c] = 0 THEN 1 ELSE 0)
                     /\ Precedes(c, { "closing" }, { "raise" })
                     /\ Precedes(c, { "raise" }, { "final_warning" })

C18_RenderedAlwaysFatal ==
    /\ []C18_FatalIffRendered
    /\ <>[](die_on_fail
              => \A c \in Ctx :
                    ~(Running(c) /\ fn[c] = "warning" /\ res[c] = "rendered"))

\* A rate-limited warning returned; the next one opened a new window, was
\* rendered and ended the process.
C18_Witness ==
    /\ die_on_fail
    /\ procs[1] = "exited"
    /\ fn[1] = "warning"
    /\ res[1] = "rendered"
    /\ calls = 2
    /\ Len(Stderr) >= 1
    /\ Stderr[1].kind = "notice"
    /\ Count(1, { "_exit" }) = 1

\* ---------------------------------------------------------------------
\* C19 (as claimed): at level 3 one rendered php_warning call starts the
\* debugger exactly once, with or without a scheduler boundary among its
\* frames.
C19_DebuggerOncePerCall ==
    (php_warning_level = 3 /\ debugger = { "gdb" } /\ Done(1))
        => Cardinality({ i \in 1 .. Len(log) : log[i].kind = "gdb" }) = 1

\* ---------------------------------------------------------------------
\* C20 (as claimed): a forked child does nothing but try to exec gdb and, if
\* that fails, write its explanatory line: whatever else is written or called,
\* the one thread of the original process (context 1) did it.
C20_ChildOnlyExplains ==
    \A i \in 1 .. Len(log) :
        log[i].ctx # 1 => log[i].kind \in { "fork", "gdb", "gdberr" }

====
